---- MODULE Spec2Model ----
(***************************************************************************)
(* A model of dcgp::expression<double> (include/dcgp/expression.hpp): the  *)
(* chromosome, its bounds, the active-set engine, the setters, the         *)
(* mutation operators and the evaluator.  Node ids and gene indices are    *)
(* the 0-based values of the C++ code; vectors are TLA+ sequences, read    *)
(* through At (v[i] of the code is At(v, i)).  The random engine m_e is    *)
(* modelled by nondeterministic choice over the closed range of each draw. *)
(* No subtraction of the code wraps on the inputs the constructor accepts  *)
(* (every "- 1u" is applied to a value >= 1), so naturals are used as is.  *)
(***************************************************************************)
EXTENDS Integers, Sequences, FiniteSets, TLC

VARIABLES
    m_n,             \* number of inputs
    m_m,             \* number of outputs
    m_r,             \* number of rows
    m_c,             \* number of columns
    m_l,             \* number of levels-back
    m_arity,         \* arity of each column
    m_f,             \* the kernels (by name)
    m_lb,            \* lower bound of each gene
    m_ub,            \* upper bound of each gene
    m_active_nodes,  \* active node ids
    m_active_genes,  \* active gene indices
    m_x,             \* the chromosome
    m_gene_idx,      \* position of the function gene of each node
    synced,          \* ghost: update_data_structures ran after the last write to m_x
    last,            \* ghost: the last call, its arguments and how it ended
    frame            \* the batch loss in progress: its arguments, retval, the mutex
                     \* and the slab workers; Idle when there is none

shape == <<m_n, m_m, m_r, m_c, m_l, m_arity, m_f, m_lb, m_ub, m_gene_idx>>
vars == <<m_n, m_m, m_r, m_c, m_l, m_arity, m_f, m_lb, m_ub, m_active_nodes,
          m_active_genes, m_x, m_gene_idx, synced, last, frame>>

-----------------------------------------------------------------------------
(* Bounds of the model *)

\* largest N given to mutate_random, mutate_active, mutate_active_fgene,
\* mutate_active_cgene and mutate_ogene
MaxMut == 2
\* longest index list given to mutate(std::vector<unsigned>)
MaxIdxs == 2
\* largest input value of a point
MaxPointVal == 4

-----------------------------------------------------------------------------
(* Vectors *)

At(v, i) == v[i + 1]

\* The vector whose elements a function of 1..k gives, held as a tuple
Vector(f) == <<>> \o f

\* The element of a one-element set.  { e(v) : v \in {d} } computes d once and
\* names it v, as a local variable of the code holds a value computed once.
Only(S) == CHOOSE e \in S : TRUE

Range(v) == {v[i] : i \in 1..Len(v)}

\* std::accumulate over the first k elements, and over all of them
RECURSIVE SumTo(_, _)
SumTo(v, k) == IF k = 0 THEN 0 ELSE SumTo(v, k - 1) + v[k]

SumSeq(v) == SumTo(v, Len(v))

\* The vectors vv[1], ..., vv[k] one after the other, and all of them
RECURSIVE FlattenTo(_, _)
FlattenTo(vv, k) == IF k = 0 THEN <<>> ELSE FlattenTo(vv, k - 1) \o vv[k]

Flatten(vv) == FlattenTo(vv, Len(vv))

Repeat(k, e) == Vector([i \in 1..k |-> e])

\* std::sort followed by erase(std::unique): the elements, ascending, once each
SortedSeq(S) ==
    Vector([i \in 1..Cardinality(S) |->
               CHOOSE e \in S : Cardinality({d \in S : d < e}) = i - 1])

SortUnique(v) == SortedSeq(Range(v))

StrictlyIncreasing(v) == \A i \in 1..(Len(v) - 1) : v[i] < v[i + 1]

-----------------------------------------------------------------------------
(* Constructor arguments.  form is "vector" for the per-column-arity       *)
(* constructor (arity is read) and "uniform" for the uniform-arity one (a  *)
(* is read).                                                               *)

Args(form, n, m, r, c, l, arity, a, f) ==
    [form |-> form, n |-> n, m |-> m, r |-> r, c |-> c, l |-> l,
     arity |-> arity, a |-> a, f |-> f]

\* The shapes the model constructs:
\*   the 1x1 grid of two inputs with two kernels, and with one kernel;
\*   two columns of different arity, two outputs, levels-back beyond the grid
\*     (outputs and the last column may select the input);
\*   two rows and two columns with one level back;
\*   two rows and one column with two kernels (one node is always inactive);
\*   three columns with two levels back;
\*   three columns with one level back (the last column cannot reach the first).
VectorShapes ==
    { Args("vector", 2, 1, 1, 1, 1, <<2>>, 0, <<"sum", "diff">>),
      Args("vector", 2, 1, 1, 1, 1, <<2>>, 0, <<"sum">>),
      Args("vector", 1, 2, 1, 2, 3, <<2, 1>>, 0, <<"diff">>),
      Args("vector", 1, 1, 2, 2, 1, <<1, 1>>, 0, <<"sum">>),
      Args("vector", 1, 1, 2, 1, 1, <<1>>, 0, <<"sum", "diff">>),
      Args("vector", 1, 1, 1, 3, 2, <<1, 1, 1>>, 0, <<"diff">>),
      Args("vector", 1, 1, 1, 3, 1, <<1, 1, 1>>, 0, <<"sum">>) }

UniformShapes ==
    { Args("uniform", 2, 1, 1, 1, 1, <<>>, 2, <<"sum", "diff">>),
      Args("uniform", 1, 1, 2, 1, 1, <<>>, 1, <<"sum", "diff">>) }

\* Arguments the sanity checks are there to refuse: a shape with one of its
\* arguments zeroed, or its arity vector shortened, lengthened or holding a 0.
Zeroed(s) ==
    { [s EXCEPT !.n = 0], [s EXCEPT !.m = 0], [s EXCEPT !.r = 0],
      [s EXCEPT !.c = 0], [s EXCEPT !.l = 0], [s EXCEPT !.f = <<>>] }

VectorRefused(s) ==
    Zeroed(s)
      \cup { [s EXCEPT !.c = 0, !.arity = <<>>],
             [s EXCEPT !.arity = SubSeq(s.arity, 1, Len(s.arity) - 1)],
             [s EXCEPT !.arity = Append(s.arity, 1)],
             [s EXCEPT !.arity = [i \in 1..Len(s.arity) |->
                                    IF i = Len(s.arity) THEN 0 ELSE s.arity[i]]] }

UniformRefused(s) == Zeroed(s) \cup { [s EXCEPT !.a = 0] }

CtorInputs ==
    VectorShapes \cup UniformShapes
      \cup UNION {VectorRefused(s) : s \in VectorShapes}
      \cup UNION {UniformRefused(s) : s \in UniformShapes}

-----------------------------------------------------------------------------
(* Construction *)

\* m_arity after the member initialisers: the vector given, or c copies of a
ArityOf(args) ==
    IF args.form = "vector" THEN args.arity ELSE Repeat(args.c, args.a)

\* Fault: sanity_checks without the loop over the arities
SanityChecksNoArityLoop(n, m, r, c, l, arity, f) ==
    IF n = 0 THEN "invalid_argument"
    ELSE IF m = 0 THEN "invalid_argument"
    ELSE IF c = 0 THEN "invalid_argument"
    ELSE IF r = 0 THEN "invalid_argument"
    ELSE IF l = 0 THEN "invalid_argument"
    ELSE IF Len(arity) # c THEN "invalid_argument"
    ELSE IF Len(f) = 0 THEN "invalid_argument"
    ELSE "ok"

\* sanity_checks: "ok", or the first check that throws std::invalid_argument
SanityChecks(n, m, r, c, l, arity, f) ==
    IF n = 0 THEN "invalid_argument"
    ELSE IF m = 0 THEN "invalid_argument"
    ELSE IF c = 0 THEN "invalid_argument"
    ELSE IF r = 0 THEN "invalid_argument"
    ELSE IF l = 0 THEN "invalid_argument"
    ELSE IF Len(arity) # c THEN "invalid_argument"
    ELSE IF \E j \in 1..Len(arity) : arity[j] = 0 THEN "invalid_argument"
    ELSE IF Len(f) = 0 THEN "invalid_argument"
    ELSE "ok"

\* init_bounds_and_chromosome: size of the chromosome
ChromosomeSize(m, r, c, arity) == r * c + r * SumSeq(arity) + m

\* init_bounds_and_chromosome: the genes of one node of column i (0-based),
\* the function gene then its connection genes, written at k, k+1, ...
\* Fault: the upper bound of a function gene one too large
NodeUbPastKernels(n, r, i, arity, f) ==
    <<Len(f)>> \o Repeat(At(arity, i), n + i * r - 1)

NodeUb(n, r, i, arity, f) ==
    <<Len(f) - 1>> \o Repeat(At(arity, i), n + i * r - 1)

\* Fault: connection genes reaching one column further back
NodeLbWider(n, r, l, i, arity) ==
    <<0>> \o Repeat(At(arity, i), IF i >= l + 1 THEN n + r * (i - l - 1) ELSE 0)

NodeLb(n, r, l, i, arity) ==
    <<0>> \o Repeat(At(arity, i), IF i >= l THEN n + r * (i - l) ELSE 0)

\* init_bounds_and_chromosome: m_ub, column first, then rows, then the outputs
InitUb(n, m, r, c, arity, f) ==
    Flatten(Vector([i \in 1..c |-> Flatten(Repeat(r, NodeUb(n, r, i - 1, arity, f)))]))
      \o Repeat(m, n + r * c - 1)

\* Fault: no lower bound for the output genes
InitLbOutputsFree(n, m, r, c, l, arity) ==
    Flatten(Vector([i \in 1..c |-> Flatten(Repeat(r, NodeLb(n, r, l, i - 1, arity)))]))
      \o Repeat(m, 0)

\* init_bounds_and_chromosome: m_lb
InitLb(n, m, r, c, l, arity) ==
    Flatten(Vector([i \in 1..c |-> Flatten(Repeat(r, NodeLb(n, r, l, i - 1, arity)))]))
      \o Repeat(m, IF l <= c THEN n + r * (c - l) ELSE 0)

\* Fault: m_gene_idx without acc *= m_r
InitGeneIdxAccUnscaled(n, r, c, arity) ==
    Vector([id1 \in 1..(r * c + n) |->
        LET node_id == id1 - 1 IN
        IF node_id < n THEN 0
        ELSE LET col == (node_id - n) \div r
                 row == (node_id - n) % r
                 acc == SumSeq(SubSeq(arity, 1, col))
             IN  acc + row * At(arity, col) + (node_id - n)])

\* init_bounds_and_chromosome: m_gene_idx, 0 for the input nodes
InitGeneIdx(n, r, c, arity) ==
    Vector([id1 \in 1..(r * c + n) |->
        LET node_id == id1 - 1 IN
        IF node_id < n THEN 0
        ELSE LET col == (node_id - n) \div r
                 row == (node_id - n) % r
                 acc == SumSeq(SubSeq(arity, 1, col)) * r
             IN  acc + row * At(arity, col) + (node_id - n)])

\* the constructor's loop of uniform draws: every chromosome within the bounds
RECURSIVE RandomFill(_, _, _)
RandomFill(lb, ub, i) ==
    IF i > Len(lb) THEN {<<>>}
    ELSE {<<v>> \o t : v \in lb[i]..ub[i], t \in RandomFill(lb, ub, i + 1)}

-----------------------------------------------------------------------------
(* The active-set engine *)

\* _get_arity
GetArity(node_id) == At(m_arity, (node_id - m_n) \div m_r)

\* update_data_structures: the nodes the m output genes select
OutputNodes(x) == Vector([i \in 1..m_m |-> At(x, Len(x) - m_m + (i - 1))])

\* update_data_structures: the connection genes of a node, as pushed to next
Connections(x, node_id) ==
    Vector([i \in 1..GetArity(node_id) |-> At(x, At(m_gene_idx, node_id) + i)])

\* Fault: a pass that follows the first node of current only and keeps the
\* others for the next pass
NextWaveOneAtATime(x, current) ==
    SortUnique(Tail(current)
                 \o (IF current[1] >= m_n THEN Connections(x, current[1]) ELSE <<>>))

\* update_data_structures: next at the end of a pass over current, sorted
\* and without duplicates
NextWave(x, current) ==
    SortUnique(Flatten(Vector([i \in 1..Len(current) |->
                                  IF current[i] >= m_n
                                  THEN Connections(x, current[i]) ELSE <<>>])))

\* update_data_structures: the values of current in the passes of the
\* do-while loop, from one pass on
RECURSIVE Waves(_, _)
Waves(x, current) ==
    Only({ IF Len(next) > 0 THEN <<current>> \o Waves(x, next) ELSE <<current>> :
           next \in {NextWave(x, current)} })

\* update_data_structures: one pass of the do-while loop and the passes after
\* it; nodes is m_active_nodes before the final sort
RECURSIVE BackWave(_, _, _)
BackWave(x, current, nodes) ==
    LET inputs == SelectSeq(current, LAMBDA node_id : ~(node_id >= m_n))
        next == NextWave(x, current)
    IN  Only({ IF Len(sorted) > 0 THEN BackWave(x, sorted, inserted) ELSE inserted :
               sorted \in {SortUnique(next)},
               inserted \in {nodes \o current \o inputs} })

\* update_data_structures: m_active_nodes
ActiveNodesOf(x) == SortUnique(BackWave(x, OutputNodes(x), <<>>))

\* Fault: m_active_genes with the loop over a node's genes ending one early
ActiveGenesOneShort(x, an) ==
    Flatten(Vector([i \in 1..Len(an) |->
                       IF an[i] >= m_n
                       THEN Vector([j1 \in 1..GetArity(an[i]) |->
                                       At(m_gene_idx, an[i]) + (j1 - 1)])
                       ELSE <<>>]))
      \o Vector([i \in 1..m_m |-> Len(x) - m_m + (i - 1)])

\* update_data_structures: m_active_genes for the active nodes an
ActiveGenesOf(x, an) ==
    Flatten(Vector([i \in 1..Len(an) |->
                       IF an[i] >= m_n
                       THEN Vector([j1 \in 1..(GetArity(an[i]) + 1) |->
                                       At(m_gene_idx, an[i]) + (j1 - 1)])
                       ELSE <<>>]))
      \o Vector([i \in 1..m_m |-> Len(x) - m_m + (i - 1)])

\* The chromosome-dependent part of the object: x with the derived vectors
\* that update_data_structures computes for it
Updated(x) ==
    Only({ [x |-> x, an |-> an, ag |-> ActiveGenesOf(x, an), synced |-> TRUE, ok |-> TRUE] :
           an \in {ActiveNodesOf(x)} })

\* The chromosome-dependent part of the object as it is now
Current ==
    [x |-> m_x, an |-> m_active_nodes, ag |-> m_active_genes, synced |-> synced,
     ok |-> TRUE]

-----------------------------------------------------------------------------
(* The object after construction *)

Call(op, ok, arg, ret) == [op |-> op, ok |-> ok, arg |-> arg, ret |-> ret]

\* No batch loss is in progress
Idle == [running |-> FALSE]

\* The two constructors: the member initialisers, sanity_checks, then
\* init_bounds_and_chromosome, the random chromosome and
\* update_data_structures.  A constructor that throws leaves no object: the
\* members the initialisers set are kept here only to tell what was refused.
Construct(args) ==
        LET arity == ArityOf(args)
            checked == SanityChecks(args.n, args.m, args.r, args.c, args.l, arity, args.f)
            op == IF args.form = "vector" THEN "expression" ELSE "expression_uniform"
        IN  /\ m_n = args.n
            /\ m_m = args.m
            /\ m_r = args.r
            /\ m_c = args.c
            /\ m_l = args.l
            /\ m_arity = arity
            /\ m_f = args.f
            /\ last = Call(op, checked = "ok", <<>>, <<>>)
            /\ synced = (checked = "ok")
            /\ frame = Idle
            /\ IF checked = "ok"
               THEN /\ m_lb = InitLb(args.n, args.m, args.r, args.c, args.l, arity)
                    /\ m_ub = InitUb(args.n, args.m, args.r, args.c, arity, args.f)
                    /\ m_gene_idx = InitGeneIdx(args.n, args.r, args.c, arity)
                    /\ \E x \in RandomFill(m_lb, m_ub, 1) :
                          \E st \in {Updated(x)} :
                              /\ Len(x) = ChromosomeSize(args.m, args.r, args.c, arity)
                              /\ m_x = st.x
                              /\ m_active_nodes = st.an
                              /\ m_active_genes = st.ag
               ELSE /\ m_lb = <<>>
                    /\ m_ub = <<>>
                    /\ m_gene_idx = <<>>
                    /\ m_x = <<>>
                    /\ m_active_nodes = <<>>
                    /\ m_active_genes = <<>>

Init == \E args \in CtorInputs : Construct(args)

\* There is an object to call: the constructor returned
Constructed == ~(last.op \in {"expression", "expression_uniform"} /\ ~last.ok)

\* A call of mutate_active_fgene or mutate_active_cgene is in its while loop
\* for ever (neither of them throws)
Spinning == last.op \in {"mutate_active_fgene", "mutate_active_cgene"} /\ ~last.ok

\* The caller can make a call: there is an object and it is in no call
Callable == Constructed /\ ~Spinning

\* The chromosome-dependent members after a call, from a record like Current
Install(st) ==
    /\ m_x' = st.x
    /\ m_active_nodes' = st.an
    /\ m_active_genes' = st.ag
    /\ synced' = st.synced

-----------------------------------------------------------------------------
(* is_valid, set, set_f_gene *)

\* Fault: is_valid without the comparison with the lower bound
IsValidNoLower(x) ==
    IF Len(x) # Len(m_lb) THEN FALSE
    ELSE \A i \in 0..(Len(x) - 1) : ~(At(x, i) > At(m_ub, i))

\* is_valid
IsValid(x) ==
    IF Len(x) # Len(m_lb) THEN FALSE
    ELSE \A i \in 0..(Len(x) - 1) :
            ~((At(x, i) > At(m_ub, i)) \/ (At(x, i) < At(m_lb, i)))

\* Chromosomes given to set: the current one with one gene moved to another
\* value within its bounds, with its first or its last gene moved to one
\* below the lower or one above the upper bound, shortened and lengthened
\* by a gene, and the chromosome 0 0 1 0, whose output gene selects input 0
SetInputs ==
    UNION { { [m_x EXCEPT ![k] = v] : v \in m_lb[k]..m_ub[k] } : k \in 1..Len(m_x) }
      \cup UNION { { [m_x EXCEPT ![k] = v] :
                      v \in {w \in {m_lb[k] - 1, m_ub[k] + 1} : w >= 0} } :
                    k \in {1, Len(m_x)} }
      \cup { SubSeq(m_x, 1, Len(m_x) - 1), Append(m_x, 0) }
      \cup { <<0, 0, 1, 0>> }

\* set
Set ==
    /\ Callable
    /\ \E x \in SetInputs :
          IF ~IsValid(x)
          THEN /\ last' = Call("set", FALSE, x, <<>>)
               /\ UNCHANGED <<shape, frame, m_x, m_active_nodes, m_active_genes, synced>>
          ELSE /\ Install(Updated(x))
               /\ last' = Call("set", TRUE, x, <<>>)
               /\ UNCHANGED <<shape, frame>>

\* Fault: set_f_gene comparing f_id with the number of kernels, not with the
\* largest kernel id
SetFGeneChecksOffByOne(node_id, f_id) ==
    IF f_id > Len(m_f) THEN "invalid_argument"
    ELSE IF node_id < m_n \/ node_id > m_n + m_c * m_r - 1 THEN "invalid_argument"
    ELSE "ok"

\* set_f_gene: the checks, "ok" or the throw
SetFGeneChecks(node_id, f_id) ==
    IF f_id > Len(m_f) - 1 THEN "invalid_argument"
    ELSE IF node_id < m_n \/ node_id > m_n + m_c * m_r - 1 THEN "invalid_argument"
    ELSE "ok"

\* set_f_gene: the write
SetFGeneWrite(x, node_id, f_id) ==
    LET gene_idx == At(m_gene_idx, node_id)
    IN  [x EXCEPT ![gene_idx + 1] = f_id]

\* Node ids given to set_f_gene: the last input node, the first and the last
\* node of the grid, and the first id past the grid
NodeInputs == {m_n - 1, m_n, m_n + m_r * m_c - 1, m_n + m_r * m_c}

\* set_f_gene, for kernel ids up to the first one past the kernels
SetFGene ==
    /\ Callable
    /\ \E node_id \in NodeInputs, f_id \in 0..Len(m_f) :
          IF SetFGeneChecks(node_id, f_id) # "ok"
          THEN /\ last' = Call("set_f_gene", FALSE, <<node_id, f_id>>, <<>>)
               /\ UNCHANGED <<shape, frame, m_x, m_active_nodes, m_active_genes, synced>>
          ELSE /\ m_x' = SetFGeneWrite(m_x, node_id, f_id)
               /\ synced' = (synced /\ m_x' = m_x)
               /\ last' = Call("set_f_gene", TRUE, <<node_id, f_id>>, <<>>)
               /\ UNCHANGED <<shape, frame, m_active_nodes, m_active_genes>>

-----------------------------------------------------------------------------
(* The mutation operators *)

\* Fault: the draw taken from one below the lower bound on
DrawBelow(x, idx) ==
    {v \in (At(m_lb, idx) - 1)..At(m_ub, idx) : v >= 0 /\ v # At(x, idx)}

\* Fault: the draw without the do-while loop that rejects the present value
DrawOnce(x, idx) == At(m_lb, idx)..At(m_ub, idx)

\* The do-while loop of draws of every mutation: a value within the bounds of
\* gene idx that is not its present value
Draw(x, idx) == {v \in At(m_lb, idx)..At(m_ub, idx) : v # At(x, idx)}

WriteGene(x, idx, v) == [x EXCEPT ![idx + 1] = v]

\* mutate(unsigned) on a record like Current: the outcomes of the call
MutateGene(st, idx) ==
    IF idx >= Len(st.x) THEN {[st EXCEPT !.ok = FALSE]}
    ELSE IF At(m_lb, idx) < At(m_ub, idx)
         THEN {Updated(WriteGene(st.x, idx, v)) : v \in Draw(st.x, idx)}
         ELSE {st}

\* mutate(unsigned), for every gene index and the first index out of bounds
Mutate ==
    /\ Callable
    /\ \E idx \in 0..Len(m_x) :
          \E st \in MutateGene(Current, idx) :
              /\ Install(st)
              /\ last' = Call("mutate", st.ok, <<idx>>, <<>>)
              /\ UNCHANGED <<shape, frame>>

\* mutate(std::vector<unsigned>): the loop from position i of idxs on, with the
\* chromosome and the flag as the earlier positions left them; ok is FALSE
\* when the loop throws
RECURSIVE MutateLoop(_, _, _, _)
MutateLoop(x, idxs, i, flag) ==
    IF ~(i < Len(idxs)) THEN {[x |-> x, flag |-> flag, ok |-> TRUE]}
    ELSE IF At(idxs, i) >= Len(x) THEN {[x |-> x, flag |-> flag, ok |-> FALSE]}
    ELSE IF At(m_lb, At(idxs, i)) < At(m_ub, At(idxs, i))
         THEN UNION { MutateLoop(WriteGene(x, At(idxs, i), v), idxs, i + 1, TRUE) :
                      v \in Draw(x, At(idxs, i)) }
         ELSE MutateLoop(x, idxs, i + 1, flag)

\* The end of mutate(std::vector<unsigned>) and of mutate_random: the derived
\* vectors are recomputed when the loop returned with the flag set, and are
\* left as they were otherwise
AfterLoop(st, res) ==
    IF res.ok /\ res.flag THEN Updated(res.x)
    ELSE [st EXCEPT !.x = res.x, !.synced = (st.synced /\ res.x = st.x), !.ok = res.ok]

\* Index lists given to mutate: up to MaxIdxs indices, each the last but one
\* gene or the first index out of bounds
IdxsInputs ==
    { Vector(idxs) : idxs \in UNION { [1..k -> {Len(m_x) - 2, Len(m_x)}] : k \in 0..MaxIdxs } }

\* mutate(std::vector<unsigned>)
MutateIdxs ==
    /\ Callable
    /\ \E idxs \in IdxsInputs :
          \E res \in MutateLoop(m_x, idxs, 0, FALSE) :
              /\ Install(AfterLoop(Current, res))
              /\ last' = Call("mutate_idxs", res.ok, idxs, <<>>)
              /\ UNCHANGED <<shape, frame>>

\* mutate_random: one pass of the loop, on the chromosome and the flag the
\* earlier passes left
MutateRandomStep(res) ==
    UNION { IF At(m_lb, idx) < At(m_ub, idx)
            THEN { [res EXCEPT !.x = WriteGene(res.x, idx, v), !.flag = TRUE] :
                   v \in Draw(res.x, idx) }
            ELSE {res} :
            idx \in 0..(Len(m_lb) - 1) }

\* mutate_random: the loop
RECURSIVE MutateRandomLoop(_, _)
MutateRandomLoop(ress, todo) ==
    IF todo = 0 THEN ress
    ELSE MutateRandomLoop(UNION {MutateRandomStep(res) : res \in ress}, todo - 1)

\* mutate_random
MutateRandom ==
    /\ Callable
    /\ \E N \in 0..MaxMut :
          \E res \in MutateRandomLoop({[x |-> m_x, flag |-> FALSE, ok |-> TRUE]}, N) :
              /\ Install(AfterLoop(Current, res))
              /\ last' = Call("mutate_random", TRUE, <<N>>, <<>>)
              /\ UNCHANGED <<shape, frame>>

\* mutate_active: one pass of the loop
MutateActiveStep(st) ==
    UNION { MutateGene(st, At(st.ag, idx)) : idx \in 0..(Len(st.ag) - 1) }

\* mutate_active: the loop
RECURSIVE MutateActiveLoop(_, _)
MutateActiveLoop(sts, todo) ==
    IF todo = 0 THEN sts
    ELSE MutateActiveLoop(UNION {MutateActiveStep(st) : st \in sts}, todo - 1)

\* mutate_active
MutateActive ==
    /\ Callable
    /\ \E N \in 0..MaxMut :
          \E st \in MutateActiveLoop({Current}, N) :
              /\ Install(st)
              /\ last' = Call("mutate_active", TRUE, <<N>>, <<>>)
              /\ UNCHANGED <<shape, frame>>

\* mutate_active_fgene, mutate_active_cgene: the nodes the rejection loop can
\* leave with, the active nodes that are not input nodes
ActiveFunctionNodes(st) == {node_id \in Range(st.an) : ~(node_id < m_n)}

\* mutate_active_fgene: one pass of the loop.  The while loop draws from
\* m_active_nodes until it has a node that is not an input: with no such node
\* it never ends, and the call does not return (ok is FALSE from then on)
MutateActiveFgeneStep(st) ==
    IF ~st.ok THEN {st}
    ELSE IF ActiveFunctionNodes(st) = {} THEN {[st EXCEPT !.ok = FALSE]}
    ELSE UNION { MutateGene(st, At(m_gene_idx, node_id)) :
                 node_id \in ActiveFunctionNodes(st) }

\* mutate_active_fgene: the loop
RECURSIVE MutateActiveFgeneLoop(_, _)
MutateActiveFgeneLoop(sts, todo) ==
    IF todo = 0 THEN sts
    ELSE MutateActiveFgeneLoop(UNION {MutateActiveFgeneStep(st) : st \in sts}, todo - 1)

\* mutate_active_fgene
MutateActiveFgene ==
    /\ Callable
    /\ \E N \in 0..MaxMut :
          \E st \in (IF Len(m_active_genes) > m_m
                     THEN MutateActiveFgeneLoop({Current}, N) ELSE {Current}) :
              /\ Install(st)
              /\ last' = Call("mutate_active_fgene", st.ok, <<N>>, <<>>)
              /\ UNCHANGED <<shape, frame>>

\* mutate_active_cgene: one pass of the loop, with the same while loop
MutateActiveCgeneStep(st) ==
    IF ~st.ok THEN {st}
    ELSE IF ActiveFunctionNodes(st) = {} THEN {[st EXCEPT !.ok = FALSE]}
    ELSE UNION { UNION { MutateGene(st, At(m_gene_idx, idx) + t) : t \in 1..GetArity(idx) } :
                 idx \in ActiveFunctionNodes(st) }

\* mutate_active_cgene: the loop
RECURSIVE MutateActiveCgeneLoop(_, _)
MutateActiveCgeneLoop(sts, todo) ==
    IF todo = 0 THEN sts
    ELSE MutateActiveCgeneLoop(UNION {MutateActiveCgeneStep(st) : st \in sts}, todo - 1)

\* mutate_active_cgene
MutateActiveCgene ==
    /\ Callable
    /\ \E N \in 0..MaxMut :
          \E st \in (IF Len(m_active_genes) > m_m
                     THEN MutateActiveCgeneLoop({Current}, N) ELSE {Current}) :
              /\ Install(st)
              /\ last' = Call("mutate_active_cgene", st.ok, <<N>>, <<>>)
              /\ UNCHANGED <<shape, frame>>

\* Fault: mutate_ogene drawing over all of m_active_genes
OgeneIdxAnyActive(st, N) == Range(st.ag)

\* mutate_ogene: the gene index given to mutate.  With m > 1 it is the last of
\* the N draws; with N = 0 there is no draw and idx is read uninitialised, so
\* m_active_genes[idx] is any gene index or an index out of bounds.
OgeneIdx(st, N) ==
    IF m_m > 1
    THEN IF N > 0
         THEN {At(st.ag, idx) : idx \in (Len(st.ag) - m_m)..(Len(st.ag) - 1)}
         ELSE 0..Len(st.x)
    ELSE {At(st.ag, Len(st.ag) - 1)}

\* mutate_ogene
MutateOgene ==
    /\ Callable
    /\ \E N \in 0..MaxMut :
          \E idx \in OgeneIdx(Current, N) :
              \E st \in MutateGene(Current, idx) :
                  /\ Install(st)
                  /\ last' = Call("mutate_ogene", st.ok, <<N>>, <<>>)
                  /\ UNCHANGED <<shape, frame>>

-----------------------------------------------------------------------------
(* The kernels (wrapped_functions.hpp) and the evaluator *)

\* my_sum: the loop from element i on
RECURSIVE MySumLoop(_, _, _)
MySumLoop(in, i, retval) ==
    IF i < Len(in) THEN MySumLoop(in, i + 1, retval + At(in, i)) ELSE retval

my_sum(in) == MySumLoop(in, 1, At(in, 0))

\* my_diff: the loop from element i on
RECURSIVE MyDiffLoop(_, _, _)
MyDiffLoop(in, i, retval) ==
    IF i < Len(in) THEN MyDiffLoop(in, i + 1, retval - At(in, i)) ELSE retval

my_diff(in) == MyDiffLoop(in, 1, At(in, 0))

\* m_f[f_id](in)
Kernel(f_id, in) == IF At(m_f, f_id) = "sum" THEN my_sum(in) ELSE my_diff(in)

\* operator(): function_in of a node, read from the scratch vector node
FunctionIn(node, node_id) ==
    Vector([j1 \in 1..GetArity(node_id) |->
               At(node, At(m_x, At(m_gene_idx, node_id) + (j1 - 1) + 1))])

\* operator(): the loop over m_active_nodes from position i on; node is the
\* scratch vector, which std::vector<T> node(m_n + m_r * m_c) fills with 0
RECURSIVE NodeLoop(_, _, _)
NodeLoop(point, node, i) ==
    IF ~(i < Len(m_active_nodes)) THEN node
    ELSE LET node_id == At(m_active_nodes, i)
         IN  Only({ NodeLoop(point, assigned, i + 1) :
                    assigned \in {[node EXCEPT ![node_id + 1] =
                        IF node_id < m_n THEN At(point, node_id)
                        ELSE Kernel(At(m_x, At(m_gene_idx, node_id)),
                                    FunctionIn(node, node_id))]} })

\* operator(): retval
Retval(point) ==
    Only({ Vector([i1 \in 1..m_m |-> At(node, At(m_x, Len(m_x) - m_m + (i1 - 1)))]) :
           node \in {NodeLoop(point, Repeat(m_n + m_r * m_c, 0), 0)} })

\* operator(): the entries of the scratch vector node that the call writes
\* and reads, from position i of m_active_nodes on, and then for retval:
\* written, the entries assigned so far; read, the entries read so far;
\* unwritten, the entries read before the call assigned them
RECURSIVE ScratchLoop(_, _)
ScratchLoop(i, use) ==
    IF ~(i < Len(m_active_nodes))
    THEN LET outputs == { At(m_x, Len(m_x) - m_m + (i1 - 1)) : i1 \in 1..m_m }
         IN  [use EXCEPT !.read = use.read \cup outputs,
                         !.unwritten = use.unwritten \cup (outputs \ use.written)]
    ELSE LET node_id == At(m_active_nodes, i)
             inputs == IF node_id < m_n THEN {}
                       ELSE { At(m_x, At(m_gene_idx, node_id) + (j1 - 1) + 1) :
                                j1 \in 1..GetArity(node_id) }
         IN  ScratchLoop(i + 1,
                         [written |-> use.written \cup {node_id},
                          read |-> use.read \cup inputs,
                          unwritten |-> use.unwritten \cup (inputs \ use.written)])

\* operator(): the use of the scratch vector by one call
ScratchUse == ScratchLoop(0, [written |-> {}, read |-> {}, unwritten |-> {}])

\* Points given to operator(): every point of n values out of 0 and the two
\* largest values, a point one value short, a point one value long and the
\* point 5 9
PointValues == {0, MaxPointVal - 1, MaxPointVal}

Points ==
    { Vector(point) : point \in [1..m_n -> PointValues] }
      \cup { Repeat(m_n - 1, MaxPointVal), Repeat(m_n + 1, MaxPointVal) }
      \cup { <<5, 9>> }

\* operator()
OperatorCall ==
    /\ Callable
    /\ \E point \in Points :
          /\ last' = IF Len(point) # m_n
                     THEN Call("operator()", FALSE, point, <<>>)
                     ELSE Call("operator()", TRUE, point, Retval(point))
          /\ UNCHANGED <<shape, frame, m_x, m_active_nodes, m_active_genes, synced>>

\* print_my_sum: the loop from element i on
RECURSIVE PrintMySumLoop(_, _, _)
PrintMySumLoop(in, i, retval) ==
    IF i < Len(in) THEN PrintMySumLoop(in, i + 1, retval \o "+" \o At(in, i))
    ELSE "(" \o retval \o ")"

print_my_sum(in) == PrintMySumLoop(in, 1, At(in, 0))

\* print_my_diff: the loop from element i on
RECURSIVE PrintMyDiffLoop(_, _, _)
PrintMyDiffLoop(in, i, retval) ==
    IF i < Len(in) THEN PrintMyDiffLoop(in, i + 1, retval \o "-" \o At(in, i))
    ELSE "(" \o retval \o ")"

print_my_diff(in) == PrintMyDiffLoop(in, 1, At(in, 0))

\* m_f[f_id](in) on strings
PrintKernel(f_id, in) ==
    IF At(m_f, f_id) = "sum" THEN print_my_sum(in) ELSE print_my_diff(in)

\* operator() on strings: the loop over m_active_nodes from position i on;
\* std::vector<std::string> node(m_n + m_r * m_c) fills the scratch with ""
RECURSIVE SymbolicNodeLoop(_, _, _)
SymbolicNodeLoop(point, node, i) ==
    IF ~(i < Len(m_active_nodes)) THEN node
    ELSE LET node_id == At(m_active_nodes, i)
         IN  Only({ SymbolicNodeLoop(point, assigned, i + 1) :
                    assigned \in {[node EXCEPT ![node_id + 1] =
                        IF node_id < m_n THEN At(point, node_id)
                        ELSE PrintKernel(At(m_x, At(m_gene_idx, node_id)),
                                         FunctionIn(node, node_id))]} })

\* operator() on strings: retval
SymbolicRetval(point) ==
    Only({ Vector([i1 \in 1..m_m |-> At(node, At(m_x, Len(m_x) - m_m + (i1 - 1)))]) :
           node \in {SymbolicNodeLoop(point, Repeat(m_n + m_r * m_c, ""), 0)} })

\* The names of the variables, x0 x1 ...
VariableNames == <<"x0", "x1", "x2">>

\* Points of strings given to operator(): n names, one short, one long
SymbolicPoints == { SubSeq(VariableNames, 1, k) : k \in {m_n - 1, m_n, m_n + 1} }

\* operator() on strings
OperatorCallSymbolic ==
    /\ Callable
    /\ \E point \in SymbolicPoints :
          /\ last' = IF Len(point) # m_n
                     THEN Call("operator()_symbolic", FALSE, point, <<>>)
                     ELSE Call("operator()_symbolic", TRUE, point, SymbolicRetval(point))
          /\ UNCHANGED <<shape, frame, m_x, m_active_nodes, m_active_genes, synced>>

-----------------------------------------------------------------------------
(* The scalar type T of the losses is double.  The evaluator's values are   *)
(* integers below 2^53, which a double holds exactly, and so are their      *)
(* differences.  A loss is the number (hi * 2^54 + lo) / den, kept as the   *)
(* record [hi, lo, den] with den a power of two: a double has 53 bits, so   *)
(* the unit in the last place of hi * 2^54 + lo with hi > 0 is              *)
(* 4 * 2^floor(log2 hi), every sum is rounded to the nearest multiple of    *)
(* it, a tie to the even one, and a division by a power of two is exact.    *)
(* The cross entropy, which needs exp and log, is kept as a term.           *)

\* 2^27: a number d is (d \div Half) * 2^27 + d % Half, Half * Half = 2^54
Half == 2^27

RECURSIVE FloorLog2(_)
FloorLog2(k) == IF k < 2 THEN 0 ELSE 1 + FloorLog2(k \div 2)

\* the unit in the last place of hi * 2^54 + lo, hi > 0, lo < 2^54
Ulp(hi) == 4 * 2^FloorLog2(hi)

\* round to nearest, ties to even: lo to a multiple of ulp
RoundToNearestEven(lo, ulp) ==
    LET q == lo \div ulp
        rem == lo % ulp
    IN  IF 2 * rem < ulp \/ (2 * rem = ulp /\ q % 2 = 0) THEN q * ulp ELSE (q + 1) * ulp

\* one number, one record: no common factor 2 of hi, lo and den; 0 is 0/1
RECURSIVE Reduced(_)
Reduced(a) ==
    IF a.hi = 0 /\ a.lo = 0 THEN [hi |-> 0, lo |-> 0, den |-> 1]
    ELSE IF a.hi % 2 = 0 /\ a.lo % 2 = 0 /\ a.den % 2 = 0
    THEN Reduced([hi |-> a.hi \div 2, lo |-> a.lo \div 2, den |-> a.den \div 2])
    ELSE a

\* the double nearest to (hi * 2^54 + lo) / den
Double(hi, lo, den) ==
    Reduced([hi |-> hi,
             lo |-> IF hi = 0 THEN lo ELSE RoundToNearestEven(lo, Ulp(hi)),
             den |-> den])

\* T(0.)
Zero == Double(0, 0, 1)

Numeric(a) == "hi" \in DOMAIN a

\* a with the denominator den, a multiple of a.den
Scaled(a, den) ==
    [hi |-> a.hi * (den \div a.den), lo |-> a.lo * (den \div a.den), den |-> den]

\* a + b of T
Plus(a, b) ==
    IF a = Zero THEN b
    ELSE IF b = Zero THEN a
    ELSE IF Numeric(a) /\ Numeric(b)
    THEN LET den == IF a.den > b.den THEN a.den ELSE b.den
         IN  Only({ Double(sa.hi + sb.hi, sa.lo + sb.lo, den) :
                    <<sa, sb>> \in {<<Scaled(a, den), Scaled(b, den)>>} })
    ELSE [plus |-> <<a, b>>]

\* a / k of T, k a power of two
Over(a, k) ==
    IF k = 1 THEN a
    ELSE IF Numeric(a) THEN Reduced([hi |-> a.hi, lo |-> a.lo, den |-> a.den * k])
    ELSE [over |-> <<a, k>>]

\* d * d of T, for an integer d
Squared(d) ==
    LET abs == IF d < 0 THEN 0 - d ELSE d
        a == abs \div Half
        b == abs % Half
    IN  Double(a * a, 2 * a * b * Half + b * b, 1)

\* Fault: the MSE loop without the division by the number of outputs
RECURSIVE MseLoopNoDivision(_, _, _, _)
MseLoopNoDivision(outputs, prediction, i, retval) ==
    IF i < Len(outputs)
    THEN MseLoopNoDivision(outputs, prediction, i + 1,
                           Plus(retval, Squared(At(outputs, i) - At(prediction, i))))
    ELSE retval

\* loss: the MSE loop from output i on
RECURSIVE MseLoop(_, _, _, _)
MseLoop(outputs, prediction, i, retval) ==
    IF i < Len(outputs)
    THEN MseLoop(outputs, prediction, i + 1,
                 Plus(retval, Squared(At(outputs, i) - At(prediction, i))))
    ELSE Over(retval, Len(outputs))

\* loss: the cross entropy of the outputs, -sum log(p_i) y_i, as a term
CrossEntropy(outputs, prediction) == [ce |-> <<outputs, prediction>>]

\* Fault: loss checking the point only
LossChecksPointOnly(point, prediction) ==
    IF Len(point) # m_n THEN "invalid_argument" ELSE "ok"

\* loss (single data point): the checks, "ok" or the throw
LossChecks(point, prediction) ==
    IF Len(point) # m_n THEN "invalid_argument"
    ELSE IF Len(prediction) # m_m THEN "invalid_argument"
    ELSE "ok"

\* loss (single data point): retval, once the checks passed
LossValue(point, prediction, loss_e) ==
    Only({ IF loss_e = "MSE" THEN MseLoop(outputs, prediction, 0, Zero)
           ELSE CrossEntropy(outputs, prediction) :
           outputs \in {Retval(point)} })

\* The largest value of a point of a loss: its square needs 58 bits
Big == 3 * Half

\* A point of n values: v, then zeros
Lead(v, n) == Vector([i \in 1..n |-> IF i = 1 THEN v ELSE 0])

\* The point 1, 2, ... of n values
Counting(n) == Vector([i \in 1..n |-> i])

\* Points and predictions given to loss: a large and a small point against
\* 0, the point 1, 2 against 5 under either loss, and vectors one value
\* short or long
LossInputs ==
    { [point |-> Lead(v, m_n), prediction |-> Repeat(m_m, 0), loss_e |-> "MSE"] :
        v \in {3, Big} }
      \cup { [point |-> Counting(m_n), prediction |-> Repeat(m_m, 5), loss_e |-> e] :
               e \in {"MSE", "CE"} }
      \cup { [point |-> Counting(k), prediction |-> Repeat(m_m, 5), loss_e |-> "MSE"] :
               k \in {m_n - 1, m_n + 1} }
      \cup { [point |-> Counting(m_n), prediction |-> Repeat(k, 5), loss_e |-> "CE"] :
               k \in {m_m - 1, m_m + 1} }

\* loss (single data point); the caller of a batch loss in progress is
\* inside that call
Loss ==
    /\ Callable
    /\ ~frame.running
    /\ \E in \in LossInputs :
          /\ last' = IF LossChecks(in.point, in.prediction) # "ok"
                     THEN Call("loss", FALSE, <<in.point, in.prediction, in.loss_e>>, <<>>)
                     ELSE Call("loss", TRUE, <<in.point, in.prediction, in.loss_e>>,
                               <<LossValue(in.point, in.prediction, in.loss_e)>>)
          /\ UNCHANGED <<shape, frame, m_x, m_active_nodes, m_active_genes, synced>>

\* The calls that evaluate the expression, and the calls that install or
\* write a chromosome
EvalNext ==
    \/ Set
    \/ MutateIdxs
    \/ OperatorCall
    \/ OperatorCallSymbolic
    \/ Loss

EvalSpec == Init /\ [][EvalNext]_vars

\* The expressions of two inputs, one output and one node of arity 2 that
\* adds, with levels-back 1 and 2
ScenarioShapes == { Args("vector", 2, 1, 1, 1, 1, <<2>>, 0, <<"sum">>),
                    Args("vector", 2, 1, 1, 1, 2, <<2>>, 0, <<"sum">>) }

ScenarioInit == \E args \in ScenarioShapes : Construct(args)

ScenarioSpec == ScenarioInit /\ [][EvalNext]_vars

-----------------------------------------------------------------------------
(* The loss on a batch, built without __EMSCRIPTEN__.  With parallel = 0    *)
(* the call is one step.  With parallel > 0 the call enters                  *)
(* tbb::parallel_for, which runs the body once for every slab, in any order  *)
(* and on any number of threads: every slab is a worker, whose steps are     *)
(* the loop that fills err, the acquisition of the spin mutex, the read and  *)
(* the write of retval += err (the scoped lock is released right after the   *)
(* write), and the caller goes on when every worker has ended.  The frame    *)
(* also counts the evaluations of every point and lists the slabs in the     *)
(* order they were added.                                                    *)

\* loss (on a batch): the checks, "ok" or the throw
BatchLossChecks(points, labels, loss_s) ==
    IF Len(points) # Len(labels) THEN "invalid_argument"
    ELSE IF Len(points) = 0 THEN "invalid_argument"
    ELSE IF loss_s = "MSE" THEN "ok"
    ELSE IF loss_s = "CE" THEN "ok"
    ELSE "invalid_argument"

\* Fault: the parallel path without its check
ParallelChecksNone(batch_size, parallel) == "ok"

\* loss (iterators): the check of the parallel path
ParallelChecks(batch_size, parallel) ==
    IF parallel > 0 /\ batch_size % parallel # 0 THEN "invalid_argument" ELSE "ok"

\* the loop retval += loss(point j, label j) over j = i .. i + count - 1:
\* the first j whose loss throws, or i + count
RECURSIVE FirstThrow(_, _, _, _)
FirstThrow(points, labels, i, count) ==
    IF count = 0 THEN i
    ELSE IF LossChecks(At(points, i), At(labels, i)) # "ok" THEN i
    ELSE FirstThrow(points, labels, i + 1, count - 1)

\* the same loop where no loss throws: the sum
RECURSIVE SumLoop(_, _, _, _, _, _)
SumLoop(points, labels, loss_e, i, count, retval) ==
    IF count = 0 THEN retval
    ELSE Only({ SumLoop(points, labels, loss_e, i + 1, count - 1, added) :
                added \in {Plus(retval, LossValue(At(points, i), At(labels, i), loss_e))} })

\* Bound: the largest number of slabs asked for
MaxParallel == 2

\* A data point with its label
Item(point, label) == [point |-> point, label |-> label]

BigItem == Item(Lead(Big, m_n), Repeat(m_m, 0))
SmallItem == Item(Lead(3, m_n), Repeat(m_m, 0))
CountingItem == Item(Counting(m_n), Repeat(m_m, 5))
LongPointItem == Item(Counting(m_n + 1), Repeat(m_m, 5))
LongLabelItem == Item(Counting(m_n), Repeat(m_m + 1, 5))

\* The batches given to loss: none, one, two and four items (four with a
\* large one and four small ones), a batch with a
\* point that is too long, one with a label that is too long, and two points
\* with one label
Batch(items, count) ==
    [points |-> Vector([i \in 1..Len(items) |-> items[i].point]),
     labels |-> Vector([i \in 1..count |-> items[i].label])]

Batches ==
    { Batch(items, Len(items)) :
        items \in { <<>>,
                    <<CountingItem>>,
                    <<BigItem, SmallItem>>,
                    <<BigItem, SmallItem, SmallItem, SmallItem>>,
                    <<SmallItem, CountingItem, SmallItem, SmallItem>>,
                    <<CountingItem, LongPointItem>>,
                    <<LongLabelItem, CountingItem>> } }
      \cup { Batch(<<CountingItem, CountingItem>>, 1) }

BatchInputs ==
    { [points |-> b.points, labels |-> b.labels, loss_s |-> s, parallel |-> p] :
        b \in Batches, s \in {"MSE", "CE", "RMSE"}, p \in 0..MaxParallel }

\* A worker of the parallel_for that has not started
Worker == [pc |-> "err", err |-> Zero, read |-> Zero]

\* loss (on a batch): the call, up to its return or up to the parallel_for
BatchLoss ==
    /\ Callable
    /\ ~frame.running
    /\ \E in \in BatchInputs :
          LET arg == <<in.points, in.labels, in.loss_s, in.parallel>>
              batch_size == Len(in.points)
          IN  IF \/ BatchLossChecks(in.points, in.labels, in.loss_s) # "ok"
                 \/ ParallelChecks(batch_size, in.parallel) # "ok"
              THEN /\ last' = Call("loss_batch", FALSE, arg, <<>>)
                   /\ UNCHANGED frame
              ELSE IF in.parallel > 0
              THEN /\ frame' = [running |-> TRUE,
                                points |-> in.points,
                                labels |-> in.labels,
                                loss_e |-> in.loss_s,
                                parallel |-> in.parallel,
                                inner_batch_size |-> batch_size \div in.parallel,
                                retval |-> Zero,
                                mutex |-> 0,
                                workers |-> Repeat(in.parallel, Worker),
                                evaluations |-> Repeat(batch_size, 0),
                                added |-> <<>>]
                   /\ last' = Call("parallel_for", TRUE, arg, <<>>)
              ELSE /\ last' =
                        IF FirstThrow(in.points, in.labels, 0, batch_size) < batch_size
                        THEN Call("loss_batch", FALSE, arg, <<>>)
                        ELSE Call("loss_batch", TRUE, arg,
                                  <<Over(SumLoop(in.points, in.labels, in.loss_s, 0,
                                                 batch_size, Zero), batch_size)>>)
                   /\ UNCHANGED frame
    /\ UNCHANGED <<shape, m_x, m_active_nodes, m_active_genes, synced>>

\* the frame with worker w replaced
WithWorker(w, worker) == [frame EXCEPT !.workers[w] = worker]

\* the body of the parallel_for for slab w: the loop that fills err
SlabLoop ==
    /\ frame.running
    /\ \E w \in 1..frame.parallel :
          /\ frame.workers[w].pc = "err"
          /\ LET i == (w - 1) * frame.inner_batch_size
                 stop == FirstThrow(frame.points, frame.labels, i, frame.inner_batch_size)
                 thrown == stop < i + frame.inner_batch_size
                 seen == IF thrown THEN i..stop ELSE i..(stop - 1)
             IN  frame' =
                    [WithWorker(w,
                        IF thrown THEN [frame.workers[w] EXCEPT !.pc = "thrown"]
                        ELSE [frame.workers[w] EXCEPT
                                !.pc = "lock",
                                !.err = SumLoop(frame.points, frame.labels, frame.loss_e,
                                                i, frame.inner_batch_size, Zero)])
                     EXCEPT !.evaluations =
                        Vector([k \in 1..Len(frame.evaluations) |->
                                   IF (k - 1) \in seen THEN frame.evaluations[k] + 1
                                   ELSE frame.evaluations[k]])]
    /\ UNCHANGED <<shape, m_x, m_active_nodes, m_active_genes, synced, last>>

\* Fault: a mutex that is always granted
TryLockAlways(w) == TRUE

\* tbb::spin_mutex: the mutex can be acquired
TryLock(w) == frame.mutex = 0

\* scoped_lock lock(mutex_weights_updates)
Lock ==
    /\ frame.running
    /\ \E w \in 1..frame.parallel :
          /\ frame.workers[w].pc = "lock"
          /\ TryLock(w)
          /\ frame' = [WithWorker(w, [frame.workers[w] EXCEPT !.pc = "read"])
                       EXCEPT !.mutex = w]
    /\ UNCHANGED <<shape, m_x, m_active_nodes, m_active_genes, synced, last>>

\* retval += err: the read of retval
ReadRetval ==
    /\ frame.running
    /\ \E w \in 1..frame.parallel :
          /\ frame.workers[w].pc = "read"
          /\ frame' = WithWorker(w, [frame.workers[w] EXCEPT !.pc = "write",
                                                            !.read = frame.retval])
    /\ UNCHANGED <<shape, m_x, m_active_nodes, m_active_genes, synced, last>>

\* retval += err: the write of retval, and the end of the scoped lock
WriteRetval ==
    /\ frame.running
    /\ \E w \in 1..frame.parallel :
          /\ frame.workers[w].pc = "write"
          /\ frame' = [WithWorker(w, [frame.workers[w] EXCEPT !.pc = "done"])
                       EXCEPT !.retval = Plus(frame.workers[w].read, frame.workers[w].err),
                              !.added = Append(frame.added, w),
                              !.mutex = 0]
    /\ UNCHANGED <<shape, m_x, m_active_nodes, m_active_genes, synced, last>>

\* the parallel_for has ended: it rethrows what a body threw, else the call
\* divides retval and returns it
Join ==
    /\ frame.running
    /\ \A w \in 1..frame.parallel : frame.workers[w].pc \in {"done", "thrown"}
    /\ last' = IF \E w \in 1..frame.parallel : frame.workers[w].pc = "thrown"
               THEN Call("loss_batch", FALSE, last.arg, <<>>)
               ELSE Call("loss_batch", TRUE, last.arg,
                         <<Over(frame.retval, Len(frame.points))>>)
    /\ frame' = Idle
    /\ UNCHANGED <<shape, m_x, m_active_nodes, m_active_genes, synced>>

\* The expressions whose loss is taken on batches: one output and two
\* outputs
BatchShapes == { Args("vector", 2, 1, 1, 1, 1, <<2>>, 0, <<"sum", "diff">>),
                 Args("vector", 1, 2, 1, 2, 3, <<2, 1>>, 0, <<"diff">>) }

BatchInit == \E args \in BatchShapes : Construct(args)

BatchNext ==
    \/ Loss
    \/ BatchLoss
    \/ SlabLoop
    \/ Lock
    \/ ReadRetval
    \/ WriteRetval
    \/ Join

BatchSpec == BatchInit /\ [][BatchNext]_vars

-----------------------------------------------------------------------------

(* The kernels as the evaluator applies them (wrapped_functions.hpp): every *)
(* kernel takes the vector function_in, which operator() resizes to the     *)
(* arity of the node's column.  A run of a kernel is the record of its      *)
(* retval and of the positions of in that it read.  A double is the         *)
(* fraction <<num, den>> in lowest terms that it is nearest to, den >= 0;   *)
(* <<1, 0>> and <<-1, 0>> are the infinities and <<0, 0>> is NaN.  What exp,*)
(* tanh, sqrt, sin, cos and log give is kept as a term.                     *)

\* in[i] of a std::vector: operator[] does not check i, and a read past the
\* end is undefined: it gives beyond, whatever lies there
Subscript(in, beyond, i) == IF i < Len(in) THEN At(in, i) ELSE beyond

RECURSIVE Gcd(_, _)
Gcd(a, b) == IF b = 0 THEN a ELSE Gcd(b, a % b)

Fraction(num, den) ==
    IF den = 0 THEN <<IF num > 0 THEN 1 ELSE IF num < 0 THEN -1 ELSE 0, 0>>
    ELSE LET g == Gcd(IF num < 0 THEN -num ELSE num, den)
         IN  <<num \div g, den \div g>>

\* retval op in[i] on doubles, for the compound assignments of the kernels
Compound(op, a, b) ==
    CASE op = "+=" -> Fraction(a[1] * b[2] + b[1] * a[2], a[2] * b[2])
      [] op = "-=" -> Fraction(a[1] * b[2] - b[1] * a[2], a[2] * b[2])
      [] op = "*=" -> Fraction(a[1] * b[1], a[2] * b[2])
      [] op = "/=" -> IF b[1] < 0 THEN Fraction(-(a[1] * b[2]), -(a[2] * b[1]))
                      ELSE Fraction(a[1] * b[2], a[2] * b[1])

\* T retval(in[0])
First(in, beyond) == [retval |-> Subscript(in, beyond, 0), read |-> {0}]

\* for (auto i = ...; i < in.size(); ++i) retval op in[i], from i on
RECURSIVE NaryLoop(_, _, _, _, _)
NaryLoop(op, in, beyond, i, run) ==
    IF i < Len(in)
    THEN NaryLoop(op, in, beyond, i + 1,
                  [retval |-> Compound(op, run.retval, Subscript(in, beyond, i)),
                   read |-> run.read \cup {i}])
    ELSE run

\* my_sum, my_diff, my_mul and my_div, which differ by their operator
MyNary(op, in, beyond) == NaryLoop(op, in, beyond, 1, First(in, beyond))

\* my_pdiv, the double overload
MyPdiv(in, beyond) ==
    LET tmpval == NaryLoop("*=", in, beyond, 2,
                           [retval |-> Subscript(in, beyond, 1), read |-> {0, 1}])
        retval == Compound("/=", Subscript(in, beyond, 0), tmpval.retval)
    IN  [retval |-> IF retval[2] # 0 THEN retval ELSE <<1, 1>>, read |-> tmpval.read]

\* my_pdiv, the gdual overload, from i on.  A gdual is the record of its
\* constant coefficient and of its derivative; the quotient is kept as the
\* dividend and the divisors, and divided holds the positions of the divisors.
RECURSIVE MyPdivGdualLoop(_, _, _, _)
MyPdivGdualLoop(in, beyond, i, run) ==
    IF i < Len(in)
    THEN LET divisor == Subscript(in, beyond, i)
         IN  MyPdivGdualLoop(in, beyond, i + 1,
                 IF divisor.constant_cf = 0
                 THEN [retval |-> [run.retval EXCEPT !.divisors = Append(@, divisor)],
                       read |-> run.read \cup {i},
                       divided |-> run.divided \cup {i}]
                 ELSE [run EXCEPT !.read = @ \cup {i}])
    ELSE run

MyPdivGdual(in, beyond) ==
    MyPdivGdualLoop(in, beyond, 1,
                    [retval |-> [dividend |-> Subscript(in, beyond, 0), divisors |-> <<>>],
                     read |-> {0}, divided |-> {}])

\* my_sig, my_tanh, my_relu, my_elu and my_isru (double): the sum, and then
\* the activation
MyActivation(f, in, beyond) ==
    LET run == MyNary("+=", in, beyond)
        retval == run.retval
    IN  [run EXCEPT !.retval =
            CASE f = "relu" -> IF retval[1] < 0 THEN <<0, 1>> ELSE retval
              [] f = "elu" -> IF retval[1] < 0 THEN <<"exp - 1", retval>> ELSE retval
              [] OTHER -> <<f, retval>>]

\* my_sin, my_cos, my_log and my_exp
MyUnary(f, in, beyond) == [retval |-> <<f, Subscript(in, beyond, 0)>>, read |-> {0}]

NaryKernels == [sum |-> "+=", diff |-> "-=", mul |-> "*=", div |-> "/="]

Activations == {"sig", "tanh", "relu", "elu", "isru"}

UnaryKernels == {"sin", "cos", "log", "exp"}

\* The kernel of a name, on doubles
KernelRun(f, in, beyond) ==
    CASE f \in DOMAIN NaryKernels -> MyNary(NaryKernels[f], in, beyond)
      [] f = "pdiv" -> MyPdiv(in, beyond)
      [] f \in Activations -> MyActivation(f, in, beyond)
      [] f \in UnaryKernels -> MyUnary(f, in, beyond)

\* for (auto i = 1u; i < in.size(); ++i) retval += sep + in[i], from i on
RECURSIVE PrintNaryLoop(_, _, _, _, _)
PrintNaryLoop(sep, in, beyond, i, run) ==
    IF i < Len(in)
    THEN PrintNaryLoop(sep, in, beyond, i + 1,
                       [retval |-> run.retval \o sep \o Subscript(in, beyond, i),
                        read |-> run.read \cup {i}])
    ELSE run

\* print_my_sum, print_my_diff, print_my_mul, print_my_div, print_my_sig,
\* print_my_tanh, print_my_relu, print_my_elu and print_my_isru, which differ
\* by their separator and by what they open with
PrintNary(open, sep, in, beyond) ==
    LET run == PrintNaryLoop(sep, in, beyond, 1, First(in, beyond))
    IN  [run EXCEPT !.retval = open \o @ \o ")"]

print_my_pdiv(in, beyond) ==
    [retval |-> "(" \o Subscript(in, beyond, 0) \o "/" \o Subscript(in, beyond, 1) \o ")",
     read |-> {0, 1}]

\* print_my_sin, print_my_cos, print_my_log and print_my_exp
PrintUnary(f, in, beyond) ==
    [retval |-> f \o "(" \o Subscript(in, beyond, 0) \o ")", read |-> {0}]

Separators == [sum |-> "+", diff |-> "-", mul |-> "*", div |-> "/"]

Openings == [sig |-> "sig(", tanh |-> "tanh(", relu |-> "ReLu(", elu |-> "ELU(",
             isru |-> "ISRU("]

\* The printer of a name
PrinterRun(f, in, beyond) ==
    CASE f \in DOMAIN Separators -> PrintNary("(", Separators[f], in, beyond)
      [] f = "pdiv" -> print_my_pdiv(in, beyond)
      [] f \in DOMAIN Openings -> PrintNary(Openings[f], "+", in, beyond)
      [] f \in UnaryKernels -> PrintUnary(f, in, beyond)

\* The values of the nodes that the kernels are given
Doubles == { <<-1, 1>>, <<0, 1>>, <<2, 1>> }

Gduals == { [constant_cf |-> 0, dx |-> 1], [constant_cf |-> 2, dx |-> 0],
            [constant_cf |-> 2, dx |-> 1] }

Strings == { "x0", "x1" }

\* What lies past the end of function_in, for each type
BeyondStrings == { "", "x9" }

\* The function nodes that operator() evaluates: those of m_active_nodes
FunctionNodes == { node_id \in Range(m_active_nodes) : ~(node_id < m_n) }

\* function_in of a node: as many values as the arity of its column
ArgumentLists(node_id, values) ==
    { Vector(in) : in \in [1..GetArity(node_id) -> values] }

\* operator() at a function node, T = double:
\* node[node_id] = m_f[m_x[idx]](function_in)
KernelCall ==
    /\ Constructed
    /\ \E node_id \in FunctionNodes :
          \E in \in ArgumentLists(node_id, Doubles), beyond \in Doubles :
              LET f == At(m_f, At(m_x, At(m_gene_idx, node_id)))
              IN  last' = Call("kernel(double)", TRUE, [f |-> f, in |-> in],
                               KernelRun(f, in, beyond))
    /\ UNCHANGED <<shape, frame, m_x, m_active_nodes, m_active_genes, synced>>

\* operator() at a function node of protected division, T = gdual
KernelCallGdual ==
    /\ Constructed
    /\ \E node_id \in FunctionNodes :
          \E in \in ArgumentLists(node_id, Gduals), beyond \in Gduals :
              LET f == At(m_f, At(m_x, At(m_gene_idx, node_id)))
              IN  /\ f = "pdiv"
                  /\ last' = Call("kernel(gdual)", TRUE, [f |-> f, in |-> in],
                                  MyPdivGdual(in, beyond))
    /\ UNCHANGED <<shape, frame, m_x, m_active_nodes, m_active_genes, synced>>

\* operator() at a function node, on strings
KernelCallSymbolic ==
    /\ Constructed
    /\ \E node_id \in FunctionNodes :
          \E in \in ArgumentLists(node_id, Strings), beyond \in BeyondStrings :
              LET f == At(m_f, At(m_x, At(m_gene_idx, node_id)))
              IN  last' = Call("kernel(string)", TRUE, [f |-> f, in |-> in],
                               PrinterRun(f, in, beyond))
    /\ UNCHANGED <<shape, frame, m_x, m_active_nodes, m_active_genes, synced>>

\* The kernels of wrapped_functions.hpp
KernelNames ==
    <<"sum", "diff", "mul", "div", "pdiv", "sig", "tanh", "relu", "elu", "isru",
      "sin", "cos", "log", "exp">>

\* One node and one output over one input, with every kernel, for the
\* arities 1, 2 and 3
KernelShapes ==
    { Args("vector", 1, 1, 1, 1, 1, <<a>>, 0, KernelNames) : a \in 1..3 }

KernelInit == \E args \in KernelShapes : Construct(args)

KernelNext ==
    \/ KernelCall
    \/ KernelCallGdual
    \/ KernelCallSymbolic

KernelSpec == KernelInit /\ [][KernelNext]_vars

-----------------------------------------------------------------------------

Next ==
    \/ Set
    \/ SetFGene
    \/ Mutate
    \/ MutateIdxs
    \/ MutateRandom
    \/ MutateActive
    \/ MutateActiveFgene
    \/ MutateActiveCgene
    \/ MutateOgene
    \/ OperatorCall

Spec == Init /\ [][Next]_vars

-----------------------------------------------------------------------------
(* The properties.  The definitions of this section are written from the   *)
(* statements they check, not from the code: the chromosome length, the    *)
(* nodes reachable from the outputs, the genes of a node, the value of a   *)
(* node.                                                                   *)

\* the column of a node of the grid
ColumnOf(id) == (id - m_n) \div m_r

\* arity[col(id)]
ArityOfNode(id) == m_arity[ColumnOf(id) + 1]

\* S = r*c + r*sum(arity) + m
ChromosomeLength == m_r * m_c + m_r * SumSeq(m_arity) + m_m

\* |x| = S and lb[k] <= x[k] <= ub[k] for every gene k
ValidChromosome(x) ==
    /\ Len(x) = ChromosomeLength
    /\ \A k \in 1..Len(x) :
          k \in DOMAIN m_lb /\ k \in DOMAIN m_ub /\ m_lb[k] <= x[k] /\ x[k] <= m_ub[k]

\* the nodes reached from node id by following connection genes backward
RECURSIVE Upstream(_, _)
Upstream(x, id) ==
    IF id < m_n THEN {id}
    ELSE {id} \cup UNION { Upstream(x, At(x, At(m_gene_idx, id) + j)) :
                           j \in 1..ArityOfNode(id) }

\* the nodes reached from the nodes the m output genes select
ReachableNodes(x) == UNION { Upstream(x, At(x, Len(x) - i)) : i \in 1..m_m }

\* gene_idx[id] .. gene_idx[id] + arity[col(id)]
NodeGenes(id) == At(m_gene_idx, id)..(At(m_gene_idx, id) + ArityOfNode(id))

\* the genes of the reachable nodes of the grid, ascending, then the output genes
DerivedGenes(x) ==
    SortedSeq(UNION {NodeGenes(id) : id \in {d \in ReachableNodes(x) : d >= m_n}})
      \o Vector([i \in 1..m_m |-> Len(x) - m_m + (i - 1)])

\* an and ag are the active sets of chromosome x
Consistent(x, an, ag) ==
    /\ an = SortedSeq(ReachableNodes(x))
    /\ ag = DerivedGenes(x)

\* val(id) of a point under chromosome x
RECURSIVE Val(_, _, _)
Val(x, point, id) ==
    IF id < m_n THEN At(point, id)
    ELSE Kernel(At(x, At(m_gene_idx, id)),
                Vector([j \in 1..ArityOfNode(id) |->
                           Val(x, point, At(x, At(m_gene_idx, id) + j))]))

\* the arguments the constructor is to refuse
Inadmissible ==
    \/ m_n = 0 \/ m_m = 0 \/ m_r = 0 \/ m_c = 0 \/ m_l = 0 \/ Len(m_f) = 0
    \/ Len(m_arity) # m_c
    \/ \E j \in 1..Len(m_arity) : m_arity[j] = 0

\* C1: in every state reached by an admissible construction followed by any
\* sequence of set, set_f_gene and mutation calls, successful or failing, the
\* chromosome has length S = r*c + r*sum(arity) + m and every gene lies within
\* its bounds.
C1_ChromosomeValid == Constructed => ValidChromosome(m_x)

\* C1 at work: mutate(ks) has thrown after rewriting a gene, and the
\* chromosome is of length S and within bounds
C1_Witness ==
    /\ last.op = "mutate_idxs" /\ ~last.ok /\ ~synced
    /\ ValidChromosome(m_x)

\* C2: after the constructor and after every normally returning call of set,
\* mutate(k), mutate(ks), mutate_random, mutate_active, mutate_active_fgene,
\* mutate_active_cgene or mutate_ogene, in any sequence, active_nodes is
\* strictly increasing and is exactly the set of nodes reachable from the
\* output genes through the connection genes of the current chromosome.
C2_ActiveNodesReachable ==
    (/\ last.ok
     /\ last.op \in {"expression", "expression_uniform", "set", "mutate", "mutate_idxs",
                     "mutate_random", "mutate_active", "mutate_active_fgene",
                     "mutate_active_cgene", "mutate_ogene"})
    => /\ StrictlyIncreasing(m_active_nodes)
       /\ Range(m_active_nodes) = ReachableNodes(m_x)

\* C3: whenever update_data_structures has run on the current chromosome,
\* active_genes is the genes gene_idx[id] .. gene_idx[id] + arity[col(id)] of
\* every active node id >= n, in ascending node order, followed by the m output
\* genes S-m .. S-1; it holds no other index, none twice, and is strictly
\* increasing.
C3_ActiveGenes ==
    synced =>
        LET body == UNION {NodeGenes(id) : id \in {d \in Range(m_active_nodes) : d >= m_n}}
            k == Len(m_active_genes) - m_m
        IN  /\ k = Cardinality(body)
            /\ {m_active_genes[i] : i \in 1..k} = body
            /\ \A i \in 1..m_m : m_active_genes[k + i] = ChromosomeLength - m_m + (i - 1)
            /\ StrictlyIncreasing(m_active_genes)

\* C3 at work: a mutation has recomputed the active sets and left a node of
\* the grid inactive
C3_Witness ==
    /\ synced /\ last.ok /\ last.op = "mutate_active"
    /\ Len(m_active_genes) > m_m
    /\ Len(m_active_genes) < Len(m_x)

\* C4: set(y) succeeds exactly when |y| = S and every y[k] lies within its
\* bounds; on success the chromosome is y and the active sets are those of y;
\* otherwise it throws and the chromosome, active_nodes and active_genes are
\* unchanged.
C4_Set ==
    [][last'.op = "set" =>
          LET y == last'.arg
          IN  IF ValidChromosome(y)
              THEN /\ last'.ok
                   /\ m_x' = y
                   /\ Consistent(y, m_active_nodes', m_active_genes')
              ELSE /\ ~last'.ok
                   /\ m_x' = m_x
                   /\ m_active_nodes' = m_active_nodes
                   /\ m_active_genes' = m_active_genes]_vars

\* C4 at work: set has refused a chromosome of the right length
C4_Witness == last.op = "set" /\ ~last.ok /\ Len(last.arg) = Len(m_x)

\* C5: for every gene index k < S, mutate(k) with lb[k] < ub[k] leaves x[k] at
\* a value within its bounds that differs from the value before the call;
\* mutate(k) with lb[k] = ub[k] changes nothing; in both cases no gene other
\* than k is changed.
C5_Mutate ==
    [][(last'.op = "mutate" /\ last'.arg[1] < Len(m_x)) =>
          LET k == last'.arg[1] + 1
          IN  /\ last'.ok
              /\ Len(m_x') = Len(m_x)
              /\ \A j \in 1..Len(m_x) : j # k => m_x'[j] = m_x[j]
              /\ IF m_lb[k] < m_ub[k]
                 THEN m_x'[k] # m_x[k] /\ m_lb[k] <= m_x'[k] /\ m_x'[k] <= m_ub[k]
                 ELSE /\ m_x' = m_x
                      /\ m_active_nodes' = m_active_nodes
                      /\ m_active_genes' = m_active_genes]_vars

\* C5 at work: mutate(k) has returned for a gene with lb[k] < ub[k]
C5_Witness ==
    /\ last.op = "mutate" /\ last.ok
    /\ m_lb[last.arg[1] + 1] < m_ub[last.arg[1] + 1]

\* C6: mutate(k) and mutate(ks) called with an index >= S, for mutate(ks) at any
\* position of the list, throw and leave no partial state: the chromosome is
\* as before the call and the active sets are those of the chromosome.
C6_FailedMutateLeavesNoTrace ==
    [][(\/ last'.op = "mutate" /\ last'.arg[1] >= Len(m_x)
        \/ last'.op = "mutate_idxs" /\ \E i \in 1..Len(last'.arg) : last'.arg[i] >= Len(m_x))
       => /\ ~last'.ok
          /\ m_x' = m_x
          /\ Consistent(m_x', m_active_nodes', m_active_genes')]_vars

\* C7: a successful set_f_gene(node_id, f_id) sets x[gene_idx[node_id]] to f_id
\* and leaves every other gene, active_nodes and active_genes unchanged;
\* afterwards the active sets are those of the new chromosome and the
\* chromosome is valid.
C7_SetFGene ==
    [][(last'.op = "set_f_gene" /\ last'.ok) =>
          /\ m_x' = [m_x EXCEPT ![At(m_gene_idx, last'.arg[1]) + 1] = last'.arg[2]]
          /\ m_active_nodes' = m_active_nodes
          /\ m_active_genes' = m_active_genes
          /\ Consistent(m_x', m_active_nodes', m_active_genes')
          /\ ValidChromosome(m_x')]_vars

\* C8: set_f_gene(node_id, f_id) throws, leaving the chromosome unchanged,
\* whenever node_id < n, node_id >= n + r*c or f_id >= |F|, and succeeds for
\* every other pair.
C8_SetFGeneRefusal ==
    [][last'.op = "set_f_gene" =>
          LET node_id == last'.arg[1]
              f_id == last'.arg[2]
          IN  IF node_id < m_n \/ node_id >= m_n + m_r * m_c \/ f_id >= Len(m_f)
              THEN ~last'.ok /\ m_x' = m_x
              ELSE last'.ok]_vars

\* C8 at work: set_f_gene has refused the first kernel id past the kernels for
\* a node of the grid
C8_Witness ==
    /\ last.op = "set_f_gene" /\ ~last.ok
    /\ last.arg[1] >= m_n /\ last.arg[1] < m_n + m_r * m_c
    /\ last.arg[2] = Len(m_f)

\* C9: either constructor throws, before any bound or chromosome is allocated,
\* if and only if one of n, m, r, c, L, |F| is zero, |arity| # c or some
\* arity[j] is 0; for every other argument tuple it returns an object whose
\* chromosome is valid and whose active sets are those of the chromosome.
C9_Construction ==
    last.op \in {"expression", "expression_uniform"} =>
        IF Inadmissible
        THEN ~last.ok /\ m_lb = <<>> /\ m_ub = <<>> /\ m_x = <<>>
        ELSE last.ok /\ ValidChromosome(m_x)
               /\ Consistent(m_x, m_active_nodes, m_active_genes)

\* C9 at work: the uniform-arity constructor has refused arity 0 with every
\* other argument admissible
C9_Witness ==
    /\ last.op = "expression_uniform" /\ ~last.ok
    /\ m_n > 0 /\ m_m > 0 /\ m_r > 0 /\ m_c > 0 /\ m_l > 0 /\ Len(m_f) > 0
    /\ Len(m_arity) = m_c
    /\ \E j \in 1..Len(m_arity) : m_arity[j] = 0

\* C10: for every valid chromosome and every point of length n, operator()
\* returns m values, out[i] = val(x[S-m+i]), with val(id) = point[id] for
\* id < n and the kernel of node id applied to the values of its connections
\* for id >= n; so x = [0,0,1,2] with n = 2, m = 1, r = c = L = 1, arity 2 and
\* F = {sum, diff} maps [3,4] to [7], and two output genes that select the
\* same node give equal entries.
C10_Evaluation ==
    (last.op = "operator()" /\ Len(last.arg) = m_n) =>
        /\ last.ok
        /\ Len(last.ret) = m_m
        /\ \A i \in 1..m_m :
              last.ret[i] = Val(m_x, last.arg, At(m_x, Len(m_x) - m_m + (i - 1)))
        /\ \A i, j \in 1..m_m :
              At(m_x, Len(m_x) - m_m + (i - 1)) = At(m_x, Len(m_x) - m_m + (j - 1))
                  => last.ret[i] = last.ret[j]

\* C11: a call of operator(), on numbers or on strings, with a point that has
\* not n values, and a call of loss with a point that has not n values or a
\* prediction that has not m values, ends with an invalid-argument error:
\* it returns nothing and leaves every member of the expression as it was.
C11_ShapeMismatch ==
    [][ /\ ( /\ last'.op \in {"operator()", "operator()_symbolic"}
             /\ Len(last'.arg) # m_n )
           => ( /\ ~last'.ok
                /\ last'.ret = <<>>
                /\ UNCHANGED <<shape, m_x, m_active_nodes, m_active_genes>> )
        /\ ( /\ last'.op = "loss"
             /\ (Len(last'.arg[1]) # m_n \/ Len(last'.arg[2]) # m_m) )
           => ( /\ ~last'.ok
                /\ last'.ret = <<>>
                /\ UNCHANGED <<shape, m_x, m_active_nodes, m_active_genes>> )
      ]_vars

\* loss was given a point of n values and a prediction that has not m values
C11_Witness ==
    /\ last.op = "loss"
    /\ ~last.ok
    /\ Len(last.arg[1]) = m_n
    /\ Len(last.arg[2]) # m_m

\* chromosomes x and y have the same output genes and the same genes of
\* every node that is active under x
AgreeOnActive(x, y) ==
    /\ Len(x) = Len(y)
    /\ \A i \in 1..m_m : At(x, Len(x) - i) = At(y, Len(y) - i)
    /\ \A id \in {d \in ReachableNodes(x) : d >= m_n} :
          \A g \in NodeGenes(id) : At(x, g) = At(y, g)

\* C12: when the chromosome before a step and the chromosome after it are
\* valid, have the same output genes and agree on every gene of every active
\* node (the same chromosome twice included), operator() returns the same
\* outputs before and after the step, for every point of n values.
C12_InactiveGenesDoNotMatter ==
    [][ ( /\ Constructed
          /\ ValidChromosome(m_x)
          /\ ValidChromosome(m_x)'
          /\ AgreeOnActive(m_x, m_x') )
        => \A point \in {p \in Points : Len(p) = m_n} : Retval(point)' = Retval(point)
      ]_vars

\* the expression has two inputs, one output, one node of arity 2, the kernel sum
ScenarioShape ==
    /\ m_n = 2 /\ m_m = 1 /\ m_r = 1 /\ m_c = 1
    /\ m_arity = <<2>> /\ m_f = <<"sum">>

\* C13 as stated: on the shape n=2, m=1, r=1, c=1, L=1, arity=[2], F={sum},
\* set([0,0,1,0]) leaves active_nodes = {0} and active_genes = {3}, and
\* operator()([5,9]) then returns [5].
C13_AsStated ==
    [][ (ScenarioShape /\ m_l = 1 /\ last'.op = "set" /\ last'.arg = <<0, 0, 1, 0>>)
        => ( /\ m_active_nodes' = <<0>>
             /\ m_active_genes' = <<3>>
             /\ Retval(<<5, 9>>)' = <<5>> )
      ]_vars

\* C13, amended: on that shape the output gene has the bounds [2, 2], so
\* set([0,0,1,0]) ends with an invalid-argument error and changes nothing;
\* on the same shape with L=2, where the output gene has the bounds [0, 2],
\* it leaves active_nodes = {0} and active_genes = {3}, and operator()([5,9])
\* then returns [5].
C13_MinimalActiveSet ==
    [][ (ScenarioShape /\ last'.op = "set" /\ last'.arg = <<0, 0, 1, 0>>)
        => IF m_l = 1
           THEN /\ ~last'.ok
                /\ At(m_lb, 3) = 2
                /\ UNCHANGED <<shape, m_x, m_active_nodes, m_active_genes>>
           ELSE /\ last'.ok
                /\ m_x' = <<0, 0, 1, 0>>
                /\ m_active_nodes' = <<0>>
                /\ m_active_genes' = <<3>>
                /\ Retval(<<5, 9>>)' = <<5>>
      ]_vars

\* set([0,0,1,0]) was called on the shape with L=1
C13_Witness ==
    /\ ScenarioShape /\ m_l = 1
    /\ last.op = "set" /\ last.arg = <<0, 0, 1, 0>>

\* the node a connection gene j of node id selects
Target(x, id, j) == At(x, At(m_gene_idx, id) + j)

\* C14: in every state of a constructed expression, every connection gene of
\* a node in column j selects an input (id < n) or a function node in a
\* column j' with j - L <= j' < j; every edge of the graph goes to a strictly
\* smaller node id, and no node is reached from itself.
C14_FeedForward ==
    Constructed =>
        \A id \in m_n..(m_n + m_r * m_c - 1) :
            \A j \in 1..ArityOfNode(id) :
                /\ \/ Target(m_x, id, j) < m_n
                   \/ /\ Target(m_x, id, j) >= m_n
                      /\ ColumnOf(id) - m_l <= ColumnOf(Target(m_x, id, j))
                      /\ ColumnOf(Target(m_x, id, j)) < ColumnOf(id)
                /\ Target(m_x, id, j) < id
                /\ id \notin Upstream(m_x, Target(m_x, id, j))

\* C14 at work: a mutation has just rewritten a connection gene of a node in
\* a column that has L columns before it (it selects a function node)
C14_Witness ==
    /\ last.op = "mutate" /\ last.ok
    /\ \E id \in m_n..(m_n + m_r * m_c - 1) :
          /\ ColumnOf(id) >= m_l
          /\ last.arg[1] \in (At(m_gene_idx, id) + 1)..(At(m_gene_idx, id) + ArityOfNode(id))
          /\ Target(m_x, id, last.arg[1] - At(m_gene_idx, id)) >= m_n

\* the arguments <<points, labels, kind_str, parallel>> the batch loss is to
\* refuse: |points| # |labels|, an empty batch, a kind that is neither "MSE"
\* nor "CE", or parallel > 0 and |points| mod parallel # 0
InvalidBatch(arg) ==
    \/ Len(arg[1]) # Len(arg[2])
    \/ Len(arg[1]) = 0
    \/ arg[3] \notin {"MSE", "CE"}
    \/ (arg[4] > 0 /\ Len(arg[1]) % arg[4] # 0)

\* some point of the batch has not n values, or some label has not m values
MisshapenBatch(arg) ==
    \/ \E i \in 1..Len(arg[1]) : Len(arg[1][i]) # m_n
    \/ \E i \in 1..Len(arg[2]) : Len(arg[2][i]) # m_m

\* C15 as stated: the batch loss ends with an invalid-argument error when
\* |points| # |labels|, when the batch is empty, when kind_str is neither
\* "MSE" nor "CE", or when parallel > 0 and |points| mod parallel # 0, and in
\* every other case it returns a value.
C15_AsStated ==
    last.op = "loss_batch" =>
        IF InvalidBatch(last.arg) THEN ~last.ok
        ELSE last.ok /\ Len(last.ret) = 1

\* C15, amended: the batch loss ends with an invalid-argument error in those
\* four cases and also when a point of the batch has not n values or a label
\* has not m values (the error of the loss of that point); in every other
\* case it returns a value.
C15_BatchErrors ==
    last.op = "loss_batch" =>
        IF InvalidBatch(last.arg) \/ MisshapenBatch(last.arg) THEN ~last.ok /\ last.ret = <<>>
        ELSE last.ok /\ Len(last.ret) = 1

\* the batch loss has refused two slabs for a batch of one point
C15_Witness ==
    /\ last.op = "loss_batch" /\ ~last.ok
    /\ Len(last.arg[1]) = Len(last.arg[2]) /\ Len(last.arg[1]) > 0
    /\ last.arg[3] \in {"MSE", "CE"}
    /\ last.arg[4] > 0 /\ Len(last.arg[1]) % last.arg[4] # 0

\* the sequential batch loss of the arguments <<points, labels, kind, parallel>>
SequentialLoss(arg) ==
    Over(SumLoop(arg[1], arg[2], arg[3], 0, Len(arg[1]), Zero), Len(arg[1]))

\* the partial sum of slab w of the batch loss in progress
SlabSum(w) ==
    SumLoop(frame.points, frame.labels, frame.loss_e,
            (w - 1) * frame.inner_batch_size, frame.inner_batch_size, Zero)

\* the partial sums of the first k slabs added, summed in the order they
\* were added
RECURSIVE SumOfAdded(_)
SumOfAdded(k) ==
    IF k = 0 THEN Zero ELSE Plus(SumOfAdded(k - 1), SlabSum(frame.added[k]))

\* every squared error of the batch is below 2^54: no sum of them is rounded
ExactBatch(arg) ==
    \A i \in 1..Len(arg[1]) :
        LossValue(arg[1][i], arg[2][i], "MSE").hi = 0

\* C16 as stated: for a divisor p > 0 of |points| the parallel batch loss
\* returns the same value as the sequential batch loss, whatever the
\* interleaving of the slab workers (checked for the kind "MSE").
C16_AsStated ==
    (last.op = "loss_batch" /\ last.ok /\ last.arg[4] > 0 /\ last.arg[3] = "MSE")
        => last.ret = <<SequentialLoss(last.arg)>>

\* C16, amended: under every interleaving of the slab workers each point's
\* loss is computed at most once and exactly once when all workers are done,
\* every slab's partial sum is added to the shared total exactly once, the
\* total is the sum of the partial sums in the order in which the workers
\* took the lock (no lost update), and the caller divides that total by the
\* batch size only after all slabs have been added.  The value returned
\* equals the sequential batch loss when no sum is rounded; in general the
\* additions are associated in another order, and the two values agree up to
\* the rounding of T.
C16_ParallelLoss ==
    [][ /\ frame.running =>
            /\ \A k \in 1..Len(frame.evaluations) : frame.evaluations[k] <= 1
            /\ \A i, j \in 1..Len(frame.added) :
                  frame.added[i] = frame.added[j] => i = j
            /\ \A w \in 1..frame.parallel :
                  (frame.workers[w].pc = "done") <=>
                      (\E i \in 1..Len(frame.added) : frame.added[i] = w)
            /\ frame.retval = SumOfAdded(Len(frame.added))
        /\ (frame.running /\ last'.op = "loss_batch" /\ last'.ok) =>
            /\ \A k \in 1..Len(frame.evaluations) : frame.evaluations[k] = 1
            /\ Len(frame.added) = frame.parallel
            /\ last'.ret = <<Over(SumOfAdded(frame.parallel), Len(frame.points))>>
            /\ (last'.arg[3] = "MSE" /\ ExactBatch(last'.arg))
                  => last'.ret = <<SequentialLoss(last'.arg)>>
      ]_vars

\* two slabs of two points each have been added and the mean returned, for
\* a batch whose sums are exact
C16_Witness ==
    /\ last.op = "loss_batch" /\ last.ok
    /\ last.arg[4] = 2 /\ Len(last.arg[1]) = 4
    /\ last.arg[3] = "MSE" /\ ExactBatch(last.arg)
    /\ last.ret = <<SequentialLoss(last.arg)>>

\* (o_1 - p_1)^2 + ... + (o_k - p_k)^2, added in this order
RECURSIVE SumOfSquares(_, _, _)
SumOfSquares(o, p, k) ==
    IF k = 0 THEN Zero
    ELSE Plus(SumOfSquares(o, p, k - 1), Squared(o[k] - p[k]))

\* (1/m) * sum of (o_i - p_i)^2
MeanSquaredError(o, p) == Over(SumOfSquares(o, p, m_m), m_m)

\* l_1 + ... + l_k for the MSE losses l of the first k points of a batch
RECURSIVE SumOfLosses(_, _, _)
SumOfLosses(points, labels, k) ==
    IF k = 0 THEN Zero
    ELSE Plus(SumOfLosses(points, labels, k - 1),
              MeanSquaredError(Retval(points[k]), labels[k]))

\* the expression has two inputs and one output, which is x0 + x1
ComputesSum ==
    /\ m_n = 2 /\ m_m = 1
    /\ \A p \in {q \in Points : Len(q) = m_n} : Retval(p) = <<p[1] + p[2]>>

\* C17: loss(point, prediction, MSE) returns (1/m) * sum over the m outputs
\* of (o_i - p_i)^2, o being what operator()(point) returns; an expression of
\* one output that computes x0 + x1 gives loss([1,2], [5], MSE) = 4; and the
\* sequential batch loss under MSE is the sum of the losses of the points
\* divided by their number.  Sums are T's, taken in the order of the index.
C17_MeanSquaredError ==
    /\ (last.op = "loss" /\ last.ok /\ last.arg[3] = "MSE")
          => last.ret = <<MeanSquaredError(Retval(last.arg[1]), last.arg[2])>>
    /\ (last.op = "loss" /\ last.arg = << <<1, 2>>, <<5>>, "MSE" >> /\ ComputesSum)
          => last.ok /\ last.ret = <<Double(0, 4, 1)>>
    /\ (last.op = "loss_batch" /\ last.ok /\ last.arg[3] = "MSE" /\ last.arg[4] = 0)
          => last.ret = <<Over(SumOfLosses(last.arg[1], last.arg[2], Len(last.arg[1])),
                               Len(last.arg[1]))>>

\* loss([1,2], [5], MSE) has returned 4 on an expression that computes x0 + x1
C17_Witness ==
    /\ last.op = "loss" /\ last.arg = << <<1, 2>>, <<5>>, "MSE" >>
    /\ ComputesSum
    /\ last.ret = <<Double(0, 4, 1)>>

\* the position of the function gene of the node in column j and row i:
\* r * (arity[0] + ... + arity[j-1]) + i * arity[j] + j * r + i
GenePosition(j, i) ==
    m_r * SumSeq(SubSeq(m_arity, 1, j)) + i * At(m_arity, j) + j * m_r + i

\* C18: the function gene of every node has the bounds [0, |F| - 1]; every
\* connection gene of a node in column j has the upper bound n + j*r - 1 and
\* the lower bound n + r*(j - L) if j >= L, else 0; every output gene has the
\* upper bound n + r*c - 1 and the lower bound n + r*(c - L) if L <= c, else
\* 0; and lb[k] <= ub[k] for every gene k.
C18_Bounds ==
    Constructed =>
        /\ Len(m_lb) = ChromosomeLength /\ Len(m_ub) = ChromosomeLength
        /\ \A j \in 0..(m_c - 1) : \A i \in 0..(m_r - 1) :
              /\ At(m_lb, GenePosition(j, i)) = 0
              /\ At(m_ub, GenePosition(j, i)) = Len(m_f) - 1
              /\ \A a \in 1..At(m_arity, j) :
                    /\ At(m_ub, GenePosition(j, i) + a) = m_n + j * m_r - 1
                    /\ At(m_lb, GenePosition(j, i) + a) =
                          IF j >= m_l THEN m_n + m_r * (j - m_l) ELSE 0
        /\ \A k \in (ChromosomeLength - m_m)..(ChromosomeLength - 1) :
              /\ At(m_ub, k) = m_n + m_r * m_c - 1
              /\ At(m_lb, k) = IF m_l <= m_c THEN m_n + m_r * (m_c - m_l) ELSE 0
        /\ \A k \in 0..(ChromosomeLength - 1) : At(m_lb, k) <= At(m_ub, k)

\* an expression with a column that has L columns before it and a column
\* that has not, after calls that wrote its chromosome
C18_Witness ==
    /\ Constructed
    /\ m_l < m_c /\ m_l > 1
    /\ last.op = "mutate_random" /\ last.ok

\* the genes of node id: its function gene and its connection genes
Block(id) == At(m_gene_idx, id)..(At(m_gene_idx, id) + ArityOfNode(id))

\* C19: gene_idx has n + r*c entries, and the entry of the node in column j
\* and row i, node n + j*r + i, is
\* r * (arity[0] + ... + arity[j-1]) + i * arity[j] + j*r + i; the blocks of
\* genes of the function nodes are disjoint, ascend with the node id and
\* cover 0 .. S-m-1, which leaves S-m .. S-1 to the output genes.
C19_GeneIdx ==
    Constructed =>
        /\ Len(m_gene_idx) = m_n + m_r * m_c
        /\ \A j \in 0..(m_c - 1) : \A i \in 0..(m_r - 1) :
              At(m_gene_idx, m_n + j * m_r + i) = GenePosition(j, i)
        /\ \A id, other \in m_n..(m_n + m_r * m_c - 1) :
              id < other => \A g \in Block(id) : \A h \in Block(other) : g < h
        /\ UNION { Block(id) : id \in m_n..(m_n + m_r * m_c - 1) }
              = 0..(ChromosomeLength - m_m - 1)
        /\ Len(m_x) = ChromosomeLength

\* an expression of two rows and two columns, after a call that wrote a gene
C19_Witness ==
    /\ Constructed
    /\ m_r = 2 /\ m_c = 2
    /\ last.op = "mutate_active" /\ last.ok /\ last.arg # <<0>>

\* C20: in a call of operator() on a point of n values, every entry of the
\* scratch vector that is read, as an argument of a kernel or as an output,
\* was assigned earlier in the same call: active_nodes is ascending, and the
\* entries read are entries of active nodes, never of inactive ones.
C20_ScratchReadAfterWrite ==
    [][ (last'.op = "operator()" /\ last'.ok)
        => ( /\ StrictlyIncreasing(m_active_nodes)
             /\ ScratchUse.unwritten = {}
             /\ ScratchUse.read \subseteq ReachableNodes(m_x)
             /\ ScratchUse.read \subseteq Range(m_active_nodes) )
      ]_vars

\* the active genes of chromosome x, as a set
ActiveGeneSet(x) == Range(DerivedGenes(x))

\* the chromosomes one iteration of a mutation of active genes may leave: x
\* itself, or x with one of its active genes moved within its bounds
ActiveNeighbours(x) ==
    {x} \cup UNION { { [x EXCEPT ![g + 1] = v] : v \in At(m_lb, g)..At(m_ub, g) } :
                     g \in ActiveGeneSet(x) }

\* z is reached from x by k iterations, each changing at most one gene, a
\* gene that is active in the chromosome the iteration starts from
RECURSIVE ActiveChain(_, _, _)
ActiveChain(x, z, k) ==
    IF k = 0 THEN x = z
    ELSE \E y \in ActiveNeighbours(x) : ActiveChain(y, z, k - 1)

\* C21: mutate_active(N) changes the chromosome by N iterations, and every
\* gene an iteration changes is an active gene of the chromosome as it stood
\* immediately before that iteration; genes inactive at that moment are not
\* changed.
C21_MutateActive ==
    [][ last'.op = "mutate_active" => ActiveChain(m_x, m_x', last'.arg[1]) ]_vars

\* the genes (0-based) in which chromosomes x and y of one length differ
ChangedGenes(x, y) == {k \in 0..(Len(x) - 1) : At(x, k) # At(y, k)}

\* the function genes of the function nodes that are active under x
ActiveFunctionGenes(x) ==
    { At(m_gene_idx, id) : id \in {d \in ReachableNodes(x) : d >= m_n} }

\* C22: mutate_active_fgene(N) changes only function genes, at positions
\* gene_idx[id], of active nodes id >= n; no connection gene and no output
\* gene changes, and active_nodes and active_genes are after the call what
\* they were before it.
C22_MutateActiveFgene ==
    [][ last'.op = "mutate_active_fgene"
        => ( /\ Len(m_x') = Len(m_x)
             /\ ChangedGenes(m_x, m_x') \subseteq ActiveFunctionGenes(m_x)
             /\ m_active_nodes' = m_active_nodes
             /\ m_active_genes' = m_active_genes )
      ]_vars

\* the chromosomes one iteration of mutate_active_cgene may leave: x itself,
\* or x with one connection gene, gene_idx[id] + t with 1 <= t <=
\* arity[col(id)], of a function node id active under x moved within its
\* bounds
ConnectionNeighbours(x) ==
    {x} \cup UNION { { [x EXCEPT ![g + 1] = v] : v \in At(m_lb, g)..At(m_ub, g) } :
                     g \in UNION { (At(m_gene_idx, id) + 1)..(At(m_gene_idx, id) + ArityOfNode(id)) :
                                   id \in {d \in ReachableNodes(x) : d >= m_n} } }

RECURSIVE ConnectionChain(_, _, _)
ConnectionChain(x, z, k) ==
    IF k = 0 THEN x = z
    ELSE \E y \in ConnectionNeighbours(x) : ConnectionChain(y, z, k - 1)

\* the function genes of all function nodes, and the output genes
FunctionAndOutputGenes ==
    { At(m_gene_idx, id) : id \in m_n..(m_n + m_r * m_c - 1) }
      \cup (Len(m_x) - m_m)..(Len(m_x) - 1)

\* C23: mutate_active_cgene(N) changes the chromosome by N iterations, each
\* changing at most one gene, a connection gene of a function node that is
\* active in the chromosome the iteration starts from; no function gene and
\* no output gene changes.
C23_MutateActiveCgene ==
    [][ last'.op = "mutate_active_cgene"
        => ( /\ ChangedGenes(m_x, m_x') \cap FunctionAndOutputGenes = {}
             /\ ConnectionChain(m_x, m_x', last'.arg[1]) )
      ]_vars

\* C24: mutate_ogene(N) with N >= 1, for every m, returns having changed at
\* most one gene, whatever N is, and that gene is one of the m output genes,
\* at S-m .. S-1; no function gene and no connection gene changes.
C24_MutateOgene ==
    [][ (last'.op = "mutate_ogene" /\ last'.arg[1] >= 1)
        => ( /\ last'.ok
             /\ Len(m_x') = Len(m_x)
             /\ Cardinality(ChangedGenes(m_x, m_x')) <= 1
             /\ ChangedGenes(m_x, m_x')
                   \subseteq (ChromosomeLength - m_m)..(ChromosomeLength - 1) )
      ]_vars

\* mutate_ogene(2) has returned on an expression of two outputs
C24_Witness ==
    /\ last.op = "mutate_ogene" /\ last.arg = <<2>> /\ last.ok
    /\ m_m = 2

\* the largest column of a function node in a wave, -1 when it has none
MaxColumn(wave) ==
    LET cols == { ColumnOf(wave[i]) : i \in {k \in 1..Len(wave) : wave[k] >= m_n} }
    IN  IF cols = {} THEN 0 - 1 ELSE CHOOSE col \in cols : \A other \in cols : other <= col

\* C25: on the chromosome of every state the back-wave loop of
\* update_data_structures ends: the largest column of a function node in a
\* wave is strictly smaller than the largest one in the wave before it, and
\* there are at most c + 1 waves.
C25_BackWaveTerminates ==
    Constructed =>
        \A waves \in {Waves(m_x, OutputNodes(m_x))} :
            /\ Len(waves) <= m_c + 1
            /\ \A i \in 1..(Len(waves) - 1) : MaxColumn(waves[i + 1]) < MaxColumn(waves[i])

\* mutate(k) has recomputed the active sets of an expression of three
\* columns, on a chromosome that takes c + 1 waves
C25_Witness ==
    /\ last.op = "mutate" /\ last.ok /\ synced
    /\ m_c = 3
    /\ Len(Waves(m_x, OutputNodes(m_x))) = m_c + 1

\* no function node is active under x: every output gene selects an input
NoActiveFunctionNode(x) == \A id \in ReachableNodes(x) : id < m_n

\* C26: mutate_active_fgene(N) and mutate_active_cgene(N) return; they leave
\* the chromosome and the active sets unchanged when no function node is
\* active; otherwise every iteration finds a node id >= n in active_nodes, so
\* the rejection loop ends.
C26_RejectionSampling ==
    [][ last'.op \in {"mutate_active_fgene", "mutate_active_cgene"}
        => ( /\ last'.ok
             /\ NoActiveFunctionNode(m_x)
                   => UNCHANGED <<m_x, m_active_nodes, m_active_genes>> )
      ]_vars

-----------------------------------------------------------------------------

\* The last call was a kernel applied by the evaluator
KernelApplied == last.op \in {"kernel(double)", "kernel(gdual)", "kernel(string)"}

\* C27: a kernel (numeric or printer) that the evaluator applies to the a
\* elements of a column of arity a reads only the positions 0 .. a-1 of its
\* argument, whatever the kernel and whatever a >= 1 the constructor took.
C27_KernelsReadInRange ==
    KernelApplied => last.ret.read \subseteq 0 .. (Len(last.arg.in) - 1)

\* C28: the gdual overload of my_pdiv divides by no argument whose constant
\* coefficient is zero, and divides by every argument in[1], in[2], ... whose
\* constant coefficient is not zero.
C28_ProtectedDivisionGdual ==
    last.op = "kernel(gdual)"
        => LET in == last.arg.in
           IN  last.ret.divided = { i \in 1..(Len(in) - 1) : At(in, i).constant_cf # 0 }

====
